---- MODULE Spec2Model ----
(***************************************************************************)
(* Model of the OAuth provider adapters (apps/social_auth/backends.py) and *)
(* of the Mattermost link records (apps/mattermost/models).                *)
(*                                                                         *)
(* Python dicts are functions from a set of string keys; an exception is a *)
(* result record whose status is "raise".  Every handler is one action.    *)
(***************************************************************************)
EXTENDS Integers, Sequences, FiniteSets, TLC

VARIABLES
    tokens,      \* auth token store: token string -> [provider, user, org, valid, attempts]
    calls,       \* history of auth_params calls of GoogleOAuth2 / LoginMattermostOAuth2
    mmResult,    \* outcome of the last LoginMattermostOAuth2.user_data call
    inflight,    \* Slack authorize redirects sent to the browser by SlackOAuth2V2.start
    done,        \* outcome of the last SlackOAuth2V2.auth_complete call
    table,       \* rows of MattermostMessage
    alertGroups, \* existing alert groups
    lastCreate   \* outcome of the last MattermostMessage.create_message call

vars == <<tokens, calls, mmResult, inflight, done, table, alertGroups, lastCreate>>

authVars == <<tokens, calls, mmResult>>
slackVars == <<inflight, done>>
messageVars == <<table, alertGroups, lastCreate>>

----------------------------------------------------------------------------
(* Bounds *)

MaxRequests == 2
MaxRedeem == 2
MaxMessages == 2

Users == {"u1", "u2"}
Orgs == {"o1"}
None == "None"

----------------------------------------------------------------------------
(* dict helpers *)

DictUpdate(d, e) == [k \in (DOMAIN d) \cup (DOMAIN e) |-> IF k \in DOMAIN e THEN e[k] ELSE d[k]]

DictPop(d, k) == [x \in (DOMAIN d) \ {k} |-> d[x]]

DictGet(d, k, default) == IF k \in DOMAIN d THEN d[k] ELSE default

\* Python truthiness of a value read from the request data
Truthy(v) == v # None /\ v # ""

----------------------------------------------------------------------------
(* Auth token store (apps.auth_token.models) *)

IssuedCount == Cardinality(DOMAIN tokens)

\* generate_token_string(): a string no stored token has.
NextToken == "tok" \o ToString(IssuedCount + 1)

\* create_auth_token(user, organization): stores a new token bound to the
\* pair and returns its string.
create_auth_token(provider, user, org) ==
    [token_string |-> NextToken,
     store |-> [t \in (DOMAIN tokens) \cup {NextToken} |->
                  IF t = NextToken
                  THEN [provider |-> provider, user |-> user, org |-> org,
                        valid |-> TRUE, attempts |-> <<>>]
                  ELSE tokens[t]]]

RedeemKeepsToken(t) ==
    [tokens EXCEPT ![t].attempts = Append(@, tokens[t].valid)]

\* A redemption of token t: succeeds when the token is stored and valid,
\* and removes it.
RedeemStore(t) ==
    [tokens EXCEPT ![t].attempts = Append(@, tokens[t].valid), ![t].valid = FALSE]

Redeem(t) ==
    /\ t \in DOMAIN tokens
    /\ Len(tokens[t].attempts) < MaxRedeem
    /\ tokens' = RedeemStore(t)
    /\ UNCHANGED <<calls, mmResult, slackVars, messageVars>>

----------------------------------------------------------------------------
(* GoogleOAuth2 and LoginMattermostOAuth2: auth_params *)

\* super().auth_params(state): the parameters the base class builds, which
\* may or may not already carry a state.
BaseParams ==
    { [client_id |-> "client", redirect_uri |-> "/complete/"],
      [client_id |-> "client", redirect_uri |-> "/complete/", state |-> "base-state"] }

Google_auth_params_KeepsBaseState(user, org, params) ==
    IF org = None
    THEN [status |-> "raise", type |-> "AttributeError", store |-> tokens]
    ELSE LET issued == create_auth_token("google", user, org)
         IN [status |-> "return",
             params |-> DictUpdate([state |-> issued.token_string], params),
             token |-> issued.token_string,
             store |-> issued.store]

\* GoogleOAuth2.auth_params.  self.strategy.request.auth.organization of a
\* request without an authenticated organization raises before
\* create_auth_token is called.
Google_auth_params(user, org, params) ==
    IF org = None
    THEN [status |-> "raise", type |-> "AttributeError", store |-> tokens]
    ELSE LET issued == create_auth_token("google", user, org)
         IN [status |-> "return",
             params |-> DictUpdate(params, [state |-> issued.token_string]),
             token |-> issued.token_string,
             store |-> issued.store]

\* LoginMattermostOAuth2.auth_params
Mattermost_auth_params(user, org, params) ==
    IF org = None
    THEN [status |-> "raise", type |-> "AttributeError", store |-> tokens]
    ELSE LET issued == create_auth_token("mattermost", user, org)
         IN [status |-> "return",
             params |-> DictUpdate(params, [state |-> issued.token_string]),
             token |-> issued.token_string,
             store |-> issued.store]

\* Login requests handled so far: auth_params calls and Slack starts
Started == Len(calls) + Cardinality(inflight)

CallRecord(backend, user, org, params, r) ==
    [backend |-> backend, user |-> user, org |-> org, base |-> params,
     before |-> DOMAIN tokens, after |-> DOMAIN r.store, result |-> DictPop(r, "store")]

GoogleAuthParams(user, org, params) ==
    /\ Started < MaxRequests
    /\ LET r == Google_auth_params(user, org, params)
       IN /\ tokens' = r.store
          /\ calls' = Append(calls, CallRecord("google-oauth2", user, org, params, r))
    /\ UNCHANGED <<mmResult, slackVars, messageVars>>

MattermostAuthParams(user, org, params) ==
    /\ Started < MaxRequests
    /\ LET r == Mattermost_auth_params(user, org, params)
       IN /\ tokens' = r.store
          /\ calls' = Append(calls, CallRecord("mattermost-login", user, org, params, r))
    /\ UNCHANGED <<mmResult, slackVars, messageVars>>

----------------------------------------------------------------------------
(* LoginMattermostOAuth2.user_data *)

ErrorPrefix == "Error while trying to fetch mattermost user: "

\* What MattermostClient(token=access_token).get_user() does: returns a
\* user, or raises.
ClientOutcomes ==
    [kind : {"user"}, user_id : {"id1", "id2"}, username : {"bob", "a.b-c"},
     nickname : {None, "nick"}]
    \cup [kind : {"MattermostAPITokenInvalid", "MattermostAPIException"},
          msg : {"invalid token", "server error"}, status : {401, 500}]
    \cup [kind : {"Exception"}]

Mattermost_user_data_DropsStatus(access_token, outcome) ==
    IF outcome.kind \in {"MattermostAPITokenInvalid", "MattermostAPIException"}
    THEN [status |-> "raise", type |-> "UserLoginOAuth2MattermostException",
          text |-> ErrorPrefix \o outcome.msg]
    ELSE IF outcome.kind = "user"
    THEN [status |-> "return",
          value |-> [user |-> [user_id |-> outcome.user_id,
                               username |-> outcome.username,
                               nickname |-> outcome.nickname]]]
    ELSE [status |-> "raise", type |-> outcome.kind]

Mattermost_user_data(access_token, outcome) ==
    IF outcome.kind \in {"MattermostAPITokenInvalid", "MattermostAPIException"}
    THEN [status |-> "raise", type |-> "UserLoginOAuth2MattermostException",
          text |-> ErrorPrefix \o outcome.msg \o " status: " \o ToString(outcome.status)]
    ELSE IF outcome.kind = "user"
    THEN [status |-> "return",
          value |-> [user |-> [user_id |-> outcome.user_id,
                               username |-> outcome.username,
                               nickname |-> outcome.nickname]]]
    ELSE [status |-> "raise", type |-> outcome.kind]

MattermostUserData(access_token, outcome) ==
    /\ mmResult' = [called |-> TRUE, access_token |-> access_token, outcome |-> outcome,
                    result |-> Mattermost_user_data(access_token, outcome)]
    /\ UNCHANGED <<tokens, calls, slackVars, messageVars>>

----------------------------------------------------------------------------
(* SlackOAuth2V2, LoginSlackOAuth2V2, InstallSlackOAuth2V2 *)

USER_SCOPE == <<"channels:read", "users.profile:read", "users:read", "users:read.email">>

BOT_SCOPE ==
    <<"app_mentions:read", "channels:history", "channels:join", "channels:read",
      "chat:write", "chat:write.customize", "chat:write.public", "commands",
      "files:write", "groups:history", "groups:read", "im:history", "im:read",
      "im:write", "mpim:history", "reactions:write", "team:read", "usergroups:read",
      "usergroups:write", "users.profile:read", "users:read", "users:read.email",
      "users:write">>

AUTHORIZATION_URL == "https://slack.com/oauth/v2/authorize"
ACCESS_TOKEN_URL == "https://slack.com/api/oauth.v2.access"
\* SLACK_AUTH_TOKEN_NAME of apps.auth_token.constants
AUTH_TOKEN_NAME == "slack_login_token"
SCOPE_SEPARATOR == ","
LOGIN == "slack-login"
SLACK_INSTALLATION_BACKEND == "slack-install-free"
SlackBackends == {LOGIN, SLACK_INSTALLATION_BACKEND}

get_scope_LoginRequestsBotScope(backend) ==
    [user_scope |-> USER_SCOPE, scope |-> BOT_SCOPE]

get_scope(backend) ==
    IF backend = LOGIN
    THEN [user_scope |-> USER_SCOPE]
    ELSE [user_scope |-> USER_SCOPE, scope |-> BOT_SCOPE]

RECURSIVE Join(_, _)
Join(sep, v) ==
    IF v = <<>> THEN ""
    ELSE IF Len(v) = 1 THEN v[1]
    ELSE v[1] \o sep \o Join(sep, Tail(v))

get_scope_argument(backend) ==
    LET scopes == get_scope(backend)
    IN [k \in DOMAIN scopes |-> Join(SCOPE_SEPARATOR, scopes[k])]

\* The redirect URI the backend instance of a request is constructed with.
RedirectUri(backend) == [path |-> "/complete/" \o backend \o "/", query |-> <<>>]

\* urllib.parse.urljoin for a reference without scheme and authority: an
\* empty reference path keeps the base path, and the reference's query
\* replaces the base's unless the reference has none.
urljoin(base, ref) ==
    [path |-> IF ref.path = "" THEN base.path ELSE ref.path,
     query |-> IF ref.path = "" /\ ref.query = <<>> THEN base.query ELSE ref.query]

_update_redirect_uri_with_auth_token_Appends(redirect_uri, token_string) ==
    [redirect_uri EXCEPT !.query = Append(@, [name |-> "state", value |-> token_string])]

_update_redirect_uri_with_auth_token(redirect_uri, token_string) ==
    urljoin(redirect_uri,
            [path |-> "", query |-> <<[name |-> AUTH_TOKEN_NAME, value |-> token_string]>>])

start_AuthorizesBeforeUpdate(backend, user, org) ==
    LET issued == create_auth_token("slack", user, org)
        redirect_uri == _update_redirect_uri_with_auth_token(RedirectUri(backend),
                                                             issued.token_string)
    IN [token |-> issued.token_string,
        store |-> issued.store,
        redirect_uri |-> redirect_uri,
        authorize |-> [url |-> AUTHORIZATION_URL,
                       params |-> DictUpdate([redirect_uri |-> RedirectUri(backend)],
                                             get_scope_argument(backend))]]

\* SlackOAuth2V2.start: the token, the store after issuing it, and the
\* authorize redirect the base start() builds from self.redirect_uri.
start(backend, user, org) ==
    LET issued == create_auth_token("slack", user, org)
        redirect_uri == _update_redirect_uri_with_auth_token(RedirectUri(backend),
                                                             issued.token_string)
    IN [token |-> issued.token_string,
        store |-> issued.store,
        redirect_uri |-> redirect_uri,
        authorize |-> [url |-> AUTHORIZATION_URL,
                       params |-> DictUpdate([redirect_uri |-> redirect_uri],
                                             get_scope_argument(backend))]]

\* Outcomes of an HTTP request to Slack: a JSON body, or a transport error.
Unused == [kind |-> "unused"]

ProfileA == [real_name_normalized |-> "Ann", email |-> "ann@x", team |-> "T-profile"]
ProfileB == [real_name_normalized |-> "Bob", email |-> "bob@x"]
ProfileNoEmail == [real_name_normalized |-> "Ann"]

ProfileOutcomes ==
    { [kind |-> "json", body |-> [ok |-> TRUE, profile |-> ProfileA]],
      [kind |-> "json", body |-> [ok |-> TRUE, profile |-> ProfileB]],
      [kind |-> "json", body |-> [ok |-> TRUE, profile |-> ProfileNoEmail]],
      [kind |-> "json", body |-> [ok |-> FALSE, error |-> "invalid_auth"]],
      [kind |-> "json", body |-> [ok |-> FALSE, profile |-> ProfileA]],
      [kind |-> "json", body |-> [error |-> "unknown"]],
      [kind |-> "HTTPError"] }

AuthedUser == [id |-> "U1", access_token |-> "xoxp-user"]

TokenOutcomes ==
    { [kind |-> "json", body |-> [ok |-> TRUE, authed_user |-> AuthedUser]],
      [kind |-> "json", body |-> [ok |-> TRUE, authed_user |-> AuthedUser,
                                  team |-> "T-token", access_token |-> "xoxb-bot"]],
      [kind |-> "json", body |-> [ok |-> TRUE, authed_user |-> AuthedUser,
                                  team |-> "T-token",
                                  user |-> [name |-> "token-user", email |-> "token@x"]]],
      [kind |-> "json", body |-> [ok |-> TRUE, authed_user |-> [id |-> "U1"],
                                  access_token |-> "xoxb-bot"]],
      [kind |-> "json", body |-> [ok |-> FALSE, error |-> "invalid_code"]],
      [kind |-> "HTTPError"] }

Retries(o1) == o1.kind = "json" /\ "ok" \in DOMAIN o1.body /\ o1.body.ok = FALSE

Slack_user_data_NoRetry(access_token, o1, o2) ==
    LET query == [auth |-> "query", token |-> access_token]
    IN IF o1.kind # "json"
       THEN [status |-> "raise", type |-> "HTTPError", requests |-> <<query>>]
       ELSE IF "profile" \notin DOMAIN o1.body
            \/ ~ ({"real_name_normalized", "email"} \subseteq DOMAIN o1.body.profile)
       THEN [status |-> "raise", type |-> "KeyError", requests |-> <<query>>]
       ELSE LET r == o1.body.profile
            IN [status |-> "return", requests |-> <<query>>,
                value |-> [user |-> [name |-> r.real_name_normalized, email |-> r.email],
                           team |-> DictGet(r, "team", None)]]

\* SlackOAuth2V2.user_data: o1 answers the request with the token as a
\* query parameter, o2 the request with the bearer header (when made).
Slack_user_data(access_token, o1, o2) ==
    LET query == [auth |-> "query", token |-> access_token]
        bearer == [auth |-> "bearer", token |-> access_token]
    IN IF o1.kind # "json"
       THEN [status |-> "raise", type |-> "HTTPError", requests |-> <<query>>]
       ELSE IF "ok" \notin DOMAIN o1.body
       THEN [status |-> "raise", type |-> "KeyError", requests |-> <<query>>]
       ELSE LET retry == o1.body.ok = FALSE
                requests == IF retry THEN <<query, bearer>> ELSE <<query>>
                last == IF retry THEN o2 ELSE o1
            IN IF last.kind # "json"
               THEN [status |-> "raise", type |-> "HTTPError", requests |-> requests]
               ELSE IF "profile" \notin DOMAIN last.body
                    \/ ~ ({"real_name_normalized", "email"}
                            \subseteq DOMAIN last.body.profile)
               THEN [status |-> "raise", type |-> "KeyError", requests |-> requests]
               ELSE LET r == last.body.profile
                    IN [status |-> "return", requests |-> requests,
                        value |-> [user |-> [name |-> r.real_name_normalized,
                                             email |-> r.email],
                                   team |-> DictGet(r, "team", None)]]

do_auth_KeepsProfileTeam(access_token, backend, token_response, o1, o2) ==
    LET ud == Slack_user_data(access_token, o1, o2)
    IN IF ud.status # "return"
       THEN [access_token |-> access_token, user_data |-> ud,
             status |-> "raise", type |-> ud.type]
       ELSE LET merged == DictUpdate(token_response, ud.value)
                response == IF "access_token" \in DOMAIN merged THEN merged
                            ELSE DictUpdate(merged, [access_token |-> access_token])
            IN [access_token |-> access_token, user_data |-> ud, status |-> "return",
                authenticated |-> [response |-> response, backend |-> backend]]

\* SlackOAuth2V2.do_auth; token_response is kwargs["response"].
do_auth(access_token, backend, token_response, o1, o2) ==
    LET ud == Slack_user_data(access_token, o1, o2)
    IN IF ud.status # "return"
       THEN [access_token |-> access_token, user_data |-> ud,
             status |-> "raise", type |-> ud.type]
       ELSE LET data == DictPop(ud.value, "team")
                merged == DictUpdate(token_response, data)
                response == IF "access_token" \in DOMAIN merged THEN merged
                            ELSE DictUpdate(merged, [access_token |-> access_token])
            IN [access_token |-> access_token, user_data |-> ud, status |-> "return",
                authenticated |-> [response |-> response, backend |-> backend]]

\* Query parameters of a request URL as the dict self.data
QueryDict(query) ==
    [n \in {query[i].name : i \in DOMAIN query} |->
        query[CHOOSE i \in DOMAIN query :
                /\ query[i].name = n
                /\ \A j \in DOMAIN query : query[j].name = n => i <= j].value]

auth_complete_TokenFromRoot(request, tok, o1, o2) ==
    LET base == [redirect_uri |-> RedirectUri(request.backend), steps |-> <<"process_error">>]
    IN IF "error" \in DOMAIN request.data
       THEN DictUpdate(base, [status |-> "raise", type |-> "AuthFailed"])
       ELSE
       LET token_string == DictGet(request.data, AUTH_TOKEN_NAME, None)
           redirect_uri == IF Truthy(token_string)
                           THEN _update_redirect_uri_with_auth_token(base.redirect_uri,
                                                                     token_string)
                           ELSE base.redirect_uri
           sent == [redirect_uri |-> redirect_uri,
                    steps |-> <<"process_error", "validate_state">>
                              \o (IF Truthy(token_string)
                                  THEN <<"_update_redirect_uri_with_auth_token">> ELSE <<>>)
                              \o <<"request_access_token">>,
                    token_request |-> [url |-> ACCESS_TOKEN_URL, method |-> "POST",
                                       data |-> [code |-> request.data.code,
                                                 redirect_uri |-> redirect_uri]]]
       IN IF tok.kind # "json"
          THEN DictUpdate(sent, [status |-> "raise", type |-> "HTTPError"])
          ELSE IF "error" \in DOMAIN tok.body
          THEN DictUpdate(sent, [status |-> "raise", type |-> "AuthFailed"])
          ELSE IF "access_token" \notin DOMAIN tok.body
          THEN DictUpdate(sent, [status |-> "raise", type |-> "KeyError"])
          ELSE DictUpdate(sent, do_auth(tok.body.access_token, request.backend,
                                        tok.body, o1, o2))

\* SlackOAuth2V2.auth_complete for one callback request; tok answers the
\* token exchange, o1 and o2 the profile requests of user_data.
auth_complete(request, tok, o1, o2) ==
    LET base == [redirect_uri |-> RedirectUri(request.backend), steps |-> <<"process_error">>]
    IN IF "error" \in DOMAIN request.data
       THEN DictUpdate(base, [status |-> "raise", type |-> "AuthFailed"])
       ELSE
       LET token_string == DictGet(request.data, AUTH_TOKEN_NAME, None)
           redirect_uri == IF Truthy(token_string)
                           THEN _update_redirect_uri_with_auth_token(base.redirect_uri,
                                                                     token_string)
                           ELSE base.redirect_uri
           sent == [redirect_uri |-> redirect_uri,
                    steps |-> <<"process_error", "validate_state">>
                              \o (IF Truthy(token_string)
                                  THEN <<"_update_redirect_uri_with_auth_token">> ELSE <<>>)
                              \o <<"request_access_token">>,
                    token_request |-> [url |-> ACCESS_TOKEN_URL, method |-> "POST",
                                       data |-> [code |-> request.data.code,
                                                 redirect_uri |-> redirect_uri]]]
       IN IF tok.kind # "json"
          THEN DictUpdate(sent, [status |-> "raise", type |-> "HTTPError"])
          ELSE IF "error" \in DOMAIN tok.body
          THEN DictUpdate(sent, [status |-> "raise", type |-> "AuthFailed"])
          ELSE IF "authed_user" \notin DOMAIN tok.body
                  \/ "access_token" \notin DOMAIN tok.body.authed_user
          THEN DictUpdate(sent, [status |-> "raise", type |-> "KeyError"])
          ELSE DictUpdate(sent, do_auth(tok.body.authed_user.access_token, request.backend,
                                        tok.body, o1, o2))

\* The callbacks Slack's redirect can produce: for an authorize redirect in
\* flight, a request to its redirect URI with a code or an error added; and
\* a request that reaches the completion URL without passing through start.
CallbackRequests ==
    { [backend |-> e.backend, origin |-> e.token,
       data |-> DictUpdate(QueryDict(e.authorize.params.redirect_uri.query), extra)] :
         e \in inflight, extra \in {[code |-> "code"], [error |-> "access_denied"]} }
    \cup { [backend |-> b, origin |-> None, data |-> [code |-> "code"]] : b \in SlackBackends }

NeedsToken(request) == "error" \notin DOMAIN request.data

NeedsProfile(request, tok) ==
    /\ NeedsToken(request)
    /\ tok.kind = "json"
    /\ "error" \notin DOMAIN tok.body
    /\ "authed_user" \in DOMAIN tok.body
    /\ "access_token" \in DOMAIN tok.body.authed_user

SlackStart(backend, user, org) ==
    /\ Started < MaxRequests
    /\ LET r == start(backend, user, org)
       IN /\ tokens' = r.store
          /\ inflight' = inflight \cup
                {[backend |-> backend, token |-> r.token, scopes |-> get_scope(backend),
                  redirect_uri |-> r.redirect_uri, authorize |-> r.authorize]}
    /\ UNCHANGED <<calls, mmResult, done, messageVars>>

SlackAuthComplete ==
    /\ \E request \in CallbackRequests :
       \E tok \in (IF NeedsToken(request) THEN TokenOutcomes ELSE {Unused}) :
       \E o1 \in (IF NeedsProfile(request, tok) THEN ProfileOutcomes ELSE {Unused}) :
       \E o2 \in (IF Retries(o1) THEN ProfileOutcomes ELSE {Unused}) :
          done' = [called |-> TRUE, request |-> request, tok |-> tok, o1 |-> o1, o2 |-> o2,
                   result |-> auth_complete(request, tok, o1, o2)]
    /\ UNCHANGED <<authVars, inflight, messageVars>>

----------------------------------------------------------------------------
(* MattermostMessage *)

ALERT_GROUP_MESSAGE == 0
LOG_MESSAGE == 1
MATTERMOST_MESSAGE_CHOICES == {ALERT_GROUP_MESSAGE, LOG_MESSAGE}

AlertGroupIds == {1, 2}
Posts == [post_id : {"p1", "p2"}, channel_id : {"c1", "c2"}]

unique_without_channel_id(row, rows) ==
    \A i \in DOMAIN rows :
        ~ (/\ rows[i].alert_group = row.alert_group
           /\ rows[i].message_type = row.message_type)

\* Meta.constraints: whether the row may be inserted beside the stored rows
unique_alert_group_message_type_channel_id(row, rows) ==
    \A i \in DOMAIN rows :
        ~ (/\ rows[i].alert_group = row.alert_group
           /\ rows[i].message_type = row.message_type
           /\ rows[i].channel_id = row.channel_id)

\* MattermostMessage.create_message: objects.create inserts the row, or
\* raises IntegrityError when the constraint rejects it.
create_message(alert_group, post, message_type) ==
    LET row == [alert_group |-> alert_group, post_id |-> post.post_id,
                channel_id |-> post.channel_id, message_type |-> message_type]
    IN IF unique_alert_group_message_type_channel_id(row, table)
       THEN [status |-> "return", row |-> row, rows |-> Append(table, row)]
       ELSE [status |-> "raise", type |-> "IntegrityError", rows |-> table]

CreateMessage(alert_group, post, message_type) ==
    /\ alert_group \in alertGroups
    /\ LET r == create_message(alert_group, post, message_type)
       IN /\ r.status = "return" => Len(table) < MaxMessages
          /\ table' = r.rows
          /\ lastCreate' = [called |-> TRUE, alert_group |-> alert_group, post |-> post,
                            message_type |-> message_type, before |-> table,
                            after |-> r.rows, status |-> r.status]
    /\ UNCHANGED <<alertGroups, authVars, slackVars>>

\* on_delete=models.CASCADE: deleting an alert group deletes its messages.
DeleteAlertGroup(alert_group) ==
    /\ alert_group \in alertGroups
    /\ alertGroups' = alertGroups \ {alert_group}
    /\ table' = SelectSeq(table, LAMBDA r : r.alert_group # alert_group)
    /\ UNCHANGED <<lastCreate, authVars, slackVars>>

----------------------------------------------------------------------------
(* Specifications *)

Init ==
    /\ tokens = [t \in {} |-> None]
    /\ calls = <<>>
    /\ mmResult = [called |-> FALSE]
    /\ inflight = {}
    /\ done = [called |-> FALSE]
    /\ table = <<>>
    /\ alertGroups = AlertGroupIds
    /\ lastCreate = [called |-> FALSE]

\* Login flows and the token store
Next ==
    \/ \E u \in Users, o \in Orgs \cup {None}, p \in BaseParams : GoogleAuthParams(u, o, p)
    \/ \E u \in Users, o \in Orgs \cup {None}, p \in BaseParams : MattermostAuthParams(u, o, p)
    \/ \E b \in SlackBackends, o \in Orgs : SlackStart(b, "u1", o)
    \/ \E t \in DOMAIN tokens : Redeem(t)

Spec == Init /\ [][Next]_vars

\* The Mattermost login flow
NextMattermost ==
    \/ \E u \in Users, o \in Orgs \cup {None}, p \in BaseParams : MattermostAuthParams(u, o, p)
    \/ \E a \in {"at1", "at2"}, c \in ClientOutcomes : MattermostUserData(a, c)

SpecMattermost == Init /\ [][NextMattermost]_vars

\* The Slack round trip
NextSlack ==
    \/ \E b \in SlackBackends : SlackStart(b, "u1", "o1")
    \/ SlackAuthComplete

SpecSlack == Init /\ [][NextSlack]_vars

\* The message table
NextMessage ==
    \/ \E g \in AlertGroupIds, p \in Posts, m \in MATTERMOST_MESSAGE_CHOICES :
          CreateMessage(g, p, m)
    \/ \E g \in AlertGroupIds : DeleteAlertGroup(g)

SpecMessage == Init /\ [][NextMessage]_vars

----------------------------------------------------------------------------
(* Properties *)

\* C1: for every issued state token, the first redemption attempt succeeds
\* and every later attempt of the same token fails, so exactly one
\* redemption of a token succeeds however the attempts are ordered.
C1_TokenRedeemedOnce ==
    \A t \in DOMAIN tokens :
        LET a == tokens[t].attempts
        IN /\ \A i \in DOMAIN a : a[i] = (i = 1)
           /\ tokens[t].valid = (a = <<>>)

C1_Witness ==
    \E t, u \in DOMAIN tokens :
        /\ tokens[t].provider = "slack" /\ Len(tokens[t].attempts) >= 2
        /\ tokens[u].provider # "slack" /\ Len(tokens[u].attempts) >= 2

Provider(backend) == IF backend = "google-oauth2" THEN "google" ELSE "mattermost"

\* C8: every auth_params call of GoogleOAuth2 or LoginMattermostOAuth2 made
\* on a request with a user and an organization issues exactly one new
\* token bound to that pair and returns the base parameters with state set
\* to that token; the tokens of two calls differ and a later call leaves
\* the token of an earlier one as issued.
C8_AuthParamsIssueOneToken ==
    \A i \in DOMAIN calls :
        LET c == calls[i]
        IN c.org # None =>
            /\ c.result.status = "return"
            /\ c.after = c.before \cup {c.result.token}
            /\ c.result.token \notin c.before
            /\ c.result.params.state = c.result.token
            /\ DOMAIN c.result.params = (DOMAIN c.base) \cup {"state"}
            /\ \A k \in (DOMAIN c.base) \ {"state"} : c.result.params[k] = c.base[k]
            /\ c.result.token \in DOMAIN tokens
            /\ tokens[c.result.token].user = c.user
            /\ tokens[c.result.token].org = c.org
            /\ tokens[c.result.token].provider = Provider(c.backend)
            /\ \A j \in DOMAIN calls :
                  (j # i /\ calls[j].org # None) => calls[j].result.token # c.result.token

C8_Witness ==
    \E i, j \in DOMAIN calls :
        /\ i < j
        /\ calls[i].user = calls[j].user
        /\ calls[i].backend = "google-oauth2"
        /\ calls[i].result.status = "return" /\ calls[j].result.status = "return"
        /\ "state" \in DOMAIN calls[i].base

\* C5: when the Mattermost client raises MattermostAPITokenInvalid or
\* MattermostAPIException, user_data raises
\* UserLoginOAuth2MattermostException whose text carries the upstream
\* message and status as they were, and returns no user data.
C5_MattermostErrorTranslated ==
    (mmResult.called
     /\ mmResult.outcome.kind \in {"MattermostAPITokenInvalid", "MattermostAPIException"})
    => /\ mmResult.result.status = "raise"
       /\ mmResult.result.type = "UserLoginOAuth2MattermostException"
       /\ mmResult.result.text =
            "Error while trying to fetch mattermost user: " \o mmResult.outcome.msg
            \o " status: " \o ToString(mmResult.outcome.status)
       /\ "value" \notin DOMAIN mmResult.result

C5_Witness ==
    /\ mmResult.called
    /\ mmResult.outcome.kind = "MattermostAPITokenInvalid"
    /\ mmResult.outcome.status = 401
    /\ mmResult.result.type = "UserLoginOAuth2MattermostException"

Triple(r) == <<r.alert_group, r.message_type, r.channel_id>>

\* C7: the table never holds two records with the same (alert_group,
\* message_type, channel_id); a create_message call whose triple is already
\* stored raises and leaves the records as they were, and a call whose
\* triple is not stored succeeds and adds its record.
C7_OneRecordPerTriple ==
    /\ \A i, j \in DOMAIN table : Triple(table[i]) = Triple(table[j]) => i = j
    /\ lastCreate.called =>
         LET row == [alert_group |-> lastCreate.alert_group,
                     post_id |-> lastCreate.post.post_id,
                     channel_id |-> lastCreate.post.channel_id,
                     message_type |-> lastCreate.message_type]
             stored == \E i \in DOMAIN lastCreate.before :
                          Triple(lastCreate.before[i]) = Triple(row)
         IN IF stored
            THEN lastCreate.status = "raise" /\ lastCreate.after = lastCreate.before
            ELSE lastCreate.status = "return"
                 /\ lastCreate.after = Append(lastCreate.before, row)

C7_Witness ==
    /\ lastCreate.called
    /\ lastCreate.status = "raise"
    /\ Len(table) = 2
    /\ table[1].alert_group = table[2].alert_group
    /\ table[1].message_type = table[2].message_type
    /\ \E i \in DOMAIN table :
         /\ Triple(table[i]) = <<lastCreate.alert_group, lastCreate.message_type,
                                 lastCreate.post.channel_id>>
         /\ table[i].post_id # lastCreate.post.post_id

ScopeSet(scopes) == UNION { { <<k, scopes[k][i]>> : i \in DOMAIN scopes[k] } : k \in DOMAIN scopes }

\* C6: the scopes requested by the install backend are a strict superset of
\* those requested by the login backend: install requests USER_SCOPE under
\* user_scope plus BOT_SCOPE under scope, login requests USER_SCOPE under
\* user_scope and has no scope entry.
C6_InstallScopesExtendLogin ==
    \A l, i \in inflight :
        (l.backend = LOGIN /\ i.backend = SLACK_INSTALLATION_BACKEND) =>
            /\ ScopeSet(l.scopes) \subseteq ScopeSet(i.scopes)
            /\ ScopeSet(l.scopes) # ScopeSet(i.scopes)
            /\ ScopeSet(i.scopes) =
                 ScopeSet(l.scopes) \cup { <<"scope", BOT_SCOPE[n]>> : n \in DOMAIN BOT_SCOPE }
            /\ l.scopes = [user_scope |-> USER_SCOPE]
            /\ "scope" \notin DOMAIN l.authorize.params
            /\ {"scope", "user_scope"} \subseteq DOMAIN i.authorize.params
            /\ i.authorize.params.user_scope = l.authorize.params.user_scope

C6_Witness ==
    \E l, i \in inflight : l.backend = LOGIN /\ i.backend = SLACK_INSTALLATION_BACKEND

\* A token response with the access token under authed_user and none at
\* the top level
NestedOnly(tok) ==
    /\ tok.kind = "json"
    /\ "error" \notin DOMAIN tok.body
    /\ "authed_user" \in DOMAIN tok.body
    /\ "access_token" \in DOMAIN tok.body.authed_user
    /\ "access_token" \notin DOMAIN tok.body

\* C2: for a token response with the access token at
\* authed_user.access_token and no top-level access_token, auth_complete
\* calls do_auth with the nested value, and the response handed to
\* strategy.authenticate has access_token equal to it.
C2_NestedAccessToken ==
    (done.called /\ NeedsToken(done.request) /\ NestedOnly(done.tok)) =>
        LET nested == done.tok.body.authed_user.access_token
        IN /\ "access_token" \in DOMAIN done.result
           /\ done.result.access_token = nested
           /\ done.result.user_data.requests[1].token = nested
           /\ (done.result.user_data.status = "return") = (done.result.status = "return")
           /\ done.result.status = "return" =>
                done.result.authenticated.response.access_token = nested

C2_Witness ==
    /\ done.called
    /\ NeedsToken(done.request)
    /\ NestedOnly(done.tok)
    /\ done.result.status = "return"
    /\ done.result.authenticated.response.access_token = "xoxp-user"

OkIs(o, value) == o.kind = "json" /\ "ok" \in DOMAIN o.body /\ o.body.ok = value

ValidProfile(o) ==
    /\ o.kind = "json"
    /\ "profile" \in DOMAIN o.body
    /\ {"real_name_normalized", "email"} \subseteq DOMAIN o.body.profile

Normalized(profile) ==
    [user |-> [name |-> profile.real_name_normalized, email |-> profile.email],
     team |-> IF "team" \in DOMAIN profile THEN profile.team ELSE None]

UserDataCalled == done.called /\ "user_data" \in DOMAIN done.result

\* C3: user_data makes the bearer-header request only when the first
\* response has ok false; when the first response has ok false and the
\* second has ok true with a valid profile, it returns the data normalized
\* from the second response's profile.
C3_FallbackProfile ==
    UserDataCalled =>
        LET ud == done.result.user_data
        IN /\ ud.requests[1].auth = "query"
           /\ Len(ud.requests) <= 2
           /\ Len(ud.requests) = 2 => (OkIs(done.o1, FALSE) /\ ud.requests[2].auth = "bearer")
           /\ (OkIs(done.o1, FALSE) /\ OkIs(done.o2, TRUE) /\ ValidProfile(done.o2)) =>
                /\ Len(ud.requests) = 2
                /\ ud.status = "return"
                /\ ud.value = Normalized(done.o2.body.profile)

C3_Witness ==
    /\ UserDataCalled
    /\ OkIs(done.o1, FALSE) /\ ValidProfile(done.o1)
    /\ OkIs(done.o2, TRUE) /\ ValidProfile(done.o2)
    /\ done.o1.body.profile # done.o2.body.profile
    /\ done.result.user_data.status = "return"
    /\ done.result.user_data.value.team = None

\* C4: when both the query-parameter request and the bearer-header request
\* return ok false, user_data ends in a failure, returns no user data, and
\* makes no third request.
C4_BothAttemptsFail ==
    (UserDataCalled /\ OkIs(done.o1, FALSE) /\ OkIs(done.o2, FALSE)) =>
        /\ done.result.user_data.status = "raise"
        /\ "value" \notin DOMAIN done.result.user_data
        /\ done.result.status = "raise"
        /\ Len(done.result.user_data.requests) = 2

Index(seq, x) == CHOOSE i \in DOMAIN seq : seq[i] = x

\* C9: in a round trip begun by start, the redirect URI of the authorize
\* step and the redirect URI of the token-exchange request are the same:
\* the backend's redirect URI with the auth-token parameter holding the
\* token start issued; auth_complete sets it after validate_state and
\* before request_access_token.
C9_SameRedirectUri ==
    (done.called /\ done.request.origin # None /\ NeedsToken(done.request)) =>
        \E e \in inflight :
            /\ e.token = done.request.origin
            /\ e.token \in DOMAIN tokens /\ tokens[e.token].provider = "slack"
            /\ "token_request" \in DOMAIN done.result
            /\ done.result.token_request.data.redirect_uri = e.authorize.params.redirect_uri
            /\ done.result.redirect_uri = e.redirect_uri
            /\ e.authorize.params.redirect_uri =
                 [path |-> RedirectUri(e.backend).path,
                  query |-> <<[name |-> AUTH_TOKEN_NAME, value |-> e.token]>>]
            /\ LET steps == done.result.steps
                   upd == "_update_redirect_uri_with_auth_token"
               IN /\ {"validate_state", upd, "request_access_token"}
                        \subseteq {steps[n] : n \in DOMAIN steps}
                  /\ Index(steps, "validate_state") < Index(steps, upd)
                  /\ Index(steps, upd) < Index(steps, "request_access_token")

C9_Witness ==
    /\ done.called
    /\ done.request.origin = "tok2"
    /\ "token_request" \in DOMAIN done.result
    /\ done.result.token_request.data.redirect_uri.query
         = <<[name |-> AUTH_TOKEN_NAME, value |-> "tok2"]>>
    /\ Cardinality(inflight) = 2

\* C10: do_auth drops the team of the user_data result before merging: the
\* response handed to strategy.authenticate has the team of the token
\* response when that has one and otherwise none, never the team that
\* user_data returned; the user of user_data replaces the user of the token
\* response, and the other token-response fields are kept.
C10_TeamFromTokenResponse ==
    (done.called /\ "authenticated" \in DOMAIN done.result) =>
        LET response == done.result.authenticated.response
            body == done.tok.body
            data == done.result.user_data.value
        IN /\ "team" \in DOMAIN body => response.team = body.team
           /\ "team" \notin DOMAIN body => "team" \notin DOMAIN response
           /\ response.user = data.user
           /\ \A k \in (DOMAIN body) \ {"user"} : response[k] = body[k]
           /\ DOMAIN response = (DOMAIN body) \cup {"user", "access_token"}

C10_Witness ==
    /\ done.called
    /\ "authenticated" \in DOMAIN done.result
    /\ done.result.user_data.value.team = "T-profile"
    /\ "team" \in DOMAIN done.tok.body
    /\ "user" \in DOMAIN done.tok.body
    /\ done.tok.body.user # done.result.user_data.value.user
    /\ done.result.authenticated.response.team = "T-token"

====
